---- MODULE Spec2Model ----
(***************************************************************************)
(* Pixvg: tracing of pixel sprites into SVG paths (src/pixvg.py).          *)
(*                                                                         *)
(* Coordinates are 0-based as in the source: a matrix is a function        *)
(* m[y][x] with y in 0..rows-1 and x in 0..cols-1; a point is <<x, y>>.    *)
(* Python objects with identity (Node2D) live in a heap `nodes`, a         *)
(* sequence indexed by object id; a link (next/prev) is an id or NoNode.   *)
(***************************************************************************)
EXTENDS Integers, Sequences, FiniteSets, TLC

VARIABLES region, pc, clusters, ci, node_grid, node_loops, paths, error,
          opt_calls, first_pass, img, regions, color_regions, svg_scale, fills,
          document, driver, trace_pos, labeler, point_set

vars == <<region, pc, clusters, ci, node_grid, node_loops, paths, error,
          opt_calls, first_pass, img, regions, color_regions, svg_scale, fills,
          document, driver, trace_pos, labeler, point_set>>

image_vars == <<img, regions, color_regions>>

\* The state of the parts that the specifications of single parts run alone.
part_vars == <<driver, trace_pos, labeler, point_set>>

cluster_vars == <<region, clusters, ci, node_grid, node_loops, paths, error,
                  opt_calls, first_pass, svg_scale, fills, document>>

\* Width and height of the colour regions the model enumerates.
W == 4
H == 3
\* The largest number of .png files in the input folder.
MaxFiles == 3
\* The largest --scale the model enumerates.
MaxScale == 3
\* Width and height of the RGBA images the model enumerates.
ImgW == 2
ImgH == 2
\* How many times optimize is called on one loop in SpecOptimize.
MaxOptimizeCalls == 2
\* Size of the Point2DSet whose methods are called by themselves.
SetW == 2
SetH == 1
\* Widest one-row bitmask handed to find_connected_neumann_regions by itself.
MaxCols == 255

\* Neighborhood's default field value (None): the neighbour is outside.
Absent == -1
\* Node2D's default next/prev (None).
NoNode == 0

\* F(v) for v the value of e.  TLC evaluates e once and binds the value, so a
\* loop that threads its state through Eager runs in constant stack per step.
Eager(e, F(_)) == CHOOSE r \in {F(v) : v \in {e}} : TRUE

Rows(m) == Cardinality(DOMAIN m)
Cols(m) == Cardinality(DOMAIN m[0])

\* np.zeros((height, width))
zeros(height, width) == [y \in 0..(height - 1) |-> [x \in 0..(width - 1) |-> 0]]

\* A store into an np.int8 array keeps the low 8 bits, two's complement.
ToInt8(v) == ((v + 128) % 256) - 128

\* The ValueError guards (ndim, range) never fire for the callers below,
\* which pass a 2-D matrix and a cell of that matrix.
np_neumann_neighbors(matrix, x, y) ==
    LET height == Rows(matrix) - 1
        width == Cols(matrix) - 1
    IN [top    |-> IF y # 0 THEN matrix[y - 1][x] ELSE Absent,
        right  |-> IF x # width THEN matrix[y][x + 1] ELSE Absent,
        bottom |-> IF y # height THEN matrix[y + 1][x] ELSE Absent,
        left   |-> IF x # 0 THEN matrix[y][x - 1] ELSE Absent]

(***************************************************************************)
(* Color                                                                   *)
(***************************************************************************)
\* The channels are those of a pixel of an image converted to RGBA: bytes.
Color(r, g, b, a) == [r |-> r, g |-> g, b |-> b, a |-> a]

\* `:x` of a non-negative integer: its hexadecimal digits, the most
\* significant first, without leading zeros (one digit for 0).
RECURSIVE HexDigits(_)
HexDigits(n) == IF n < 16 THEN <<n>> ELSE Append(HexDigits(n \div 16), n % 16)

\* `:02x`: the digits, with zeros in front up to a length of 2.
Hex02(n) == IF Len(HexDigits(n)) < 2 THEN <<0>> \o HexDigits(n) ELSE HexDigits(n)

\* to_hex with `:x` in the place of `:02x`.
to_hex_unpadded(color) ==
    HexDigits(color.r) \o HexDigits(color.g) \o HexDigits(color.b) \o HexDigits(color.a)

\* The string after the '#', as the sequence of its hexadecimal digits.
to_hex(color) == Hex02(color.r) \o Hex02(color.g) \o Hex02(color.b) \o Hex02(color.a)

(***************************************************************************)
(* Point2DSet / Color2DRegion                                              *)
(***************************************************************************)
Point2DSet(width, height) ==
    [width |-> width, height |-> height,
     bitmask |-> zeros(height, width), data |-> {}]

Color2DRegion(color, width, height) ==
    [color |-> color, width |-> width, height |-> height,
     bitmask |-> zeros(height, width), data |-> {}]

\* numpy indexing: an index i of an axis of length n is valid for
\* -n <= i < n, a negative one counting from the end; otherwise IndexError,
\* which add_point turns into ValueError before anything was changed.
add_point(s, point) ==
    LET x == point[1]
        y == point[2]
    IN IF y < -s.height \/ y >= s.height \/ x < -s.width \/ x >= s.width
       THEN s
       ELSE [s EXCEPT !.bitmask[y % s.height][x % s.width] = 1,
                      !.data = @ \cup {point}]

\* The bitmask element is cleared first; set.remove of a point that is not
\* in data then raises KeyError, which the `except IndexError` lets through
\* with the bitmask already changed.
remove_point(s, point) ==
    LET x == point[1]
        y == point[2]
    IN IF y < -s.height \/ y >= s.height \/ x < -s.width \/ x >= s.width
       THEN s
       ELSE [s EXCEPT !.bitmask[y % s.height][x % s.width] = 0,
                      !.data = @ \ {point}]

(***************************************************************************)
(* find_connected_neumann_regions                                          *)
(***************************************************************************)
PushIf(stack, cond, p) == IF cond THEN Append(stack, p) ELSE stack

\* flood_step that forgets the left neighbour.
flood_step_no_left(bitmask, st, region_id) ==
    LET p == st.stack[Len(st.stack)]
        rest == SubSeq(st.stack, 1, Len(st.stack) - 1)
        x == p[1]
        y == p[2]
    IN IF st.regions[y][x] # 0
       THEN [regions |-> st.regions, stack |-> rest, last |-> p]
       ELSE LET neighbors == np_neumann_neighbors(bitmask, x, y)
                s1 == PushIf(rest, neighbors.top = 1, <<x, y - 1>>)
                s2 == PushIf(s1, neighbors.right = 1, <<x + 1, y>>)
                s3 == PushIf(s2, neighbors.bottom = 1, <<x, y + 1>>)
            IN [regions |-> [st.regions EXCEPT ![y][x] = ToInt8(region_id)],
                stack |-> s3, last |-> p]

\* One iteration of `while stack:` on st = [regions, stack, last]; last is the
\* cell of the latest pop, which the source leaves in the loop variables x, y.
flood_step(bitmask, st, region_id) ==
    LET p == st.stack[Len(st.stack)]
        rest == SubSeq(st.stack, 1, Len(st.stack) - 1)
        x == p[1]
        y == p[2]
    IN IF st.regions[y][x] # 0
       THEN [regions |-> st.regions, stack |-> rest, last |-> p]
       ELSE LET neighbors == np_neumann_neighbors(bitmask, x, y)
                s1 == PushIf(rest, neighbors.top = 1, <<x, y - 1>>)
                s2 == PushIf(s1, neighbors.right = 1, <<x + 1, y>>)
                s3 == PushIf(s2, neighbors.bottom = 1, <<x, y + 1>>)
                s4 == PushIf(s3, neighbors.left = 1, <<x - 1, y>>)
            IN [regions |-> [st.regions EXCEPT ![y][x] = ToInt8(region_id)],
                stack |-> s4, last |-> p]

RECURSIVE flood_fill(_, _, _)
flood_fill(bitmask, st, region_id) ==
    IF st.stack = <<>> THEN st
    ELSE Eager(flood_step(bitmask, st, region_id),
               LAMBDA v : flood_fill(bitmask, v, region_id))

\* One iteration of the inner for loop, iteration k = yIter * cols + xIter,
\* on st = [regions, region_id, y].  The inner `x, y = stack.pop()` rebinds
\* the loop variables: x is bound again by the next inner iteration, y only
\* by the next outer one, so the rest of the row is probed at the y of the
\* latest pop (st.y).
label_step(bitmask, st, k) ==
    LET cols == Cols(bitmask)
        x == k % cols
        y == IF x = 0 THEN k \div cols ELSE st.y
    IN IF bitmask[y][x] = 1 /\ st.regions[y][x] = 0
       THEN Eager(flood_fill(bitmask,
                             [regions |-> st.regions, stack |-> <<<<x, y>>>>,
                              last |-> <<x, y>>],
                             st.region_id),
                  LAMBDA r : [regions |-> r.regions,
                              region_id |-> st.region_id + 1,
                              y |-> r.last[2]])
       ELSE [regions |-> st.regions, region_id |-> st.region_id, y |-> y]

RECURSIVE label_scan(_, _, _)
label_scan(bitmask, st, k) ==
    IF k >= Rows(bitmask) * Cols(bitmask) THEN st
    ELSE Eager(label_step(bitmask, st, k),
               LAMBDA v : label_scan(bitmask, v, k + 1))

find_connected_neumann_regions(bitmask) ==
    label_scan(bitmask,
               [regions |-> zeros(Rows(bitmask), Cols(bitmask)),
                region_id |-> 1, y |-> 0],
               0).regions

(***************************************************************************)
(* split_into_clusters                                                     *)
(***************************************************************************)
\* Position of the entry with key id in a dict kept as a sequence of
\* [id, cluster] in insertion order; 0 when the key is unknown.
IndexOfId(dict, id) ==
    IF \E i \in 1..Len(dict) : dict[i].id = id
    THEN CHOOSE i \in 1..Len(dict) : dict[i].id = id
    ELSE 0

\* One iteration of the loops over cluster_matrix, at cell k.
collect_step(reg, cluster_matrix, dict, k) ==
    LET cols == Cols(cluster_matrix)
        x == k % cols
        y == k \div cols
        id == cluster_matrix[y][x]
    IN IF id = 0 THEN dict
       ELSE LET d1 == IF IndexOfId(dict, id) = 0
                      THEN Append(dict,
                             [id |-> id,
                              cluster |-> Color2DRegion(reg.color, reg.width, reg.height)])
                      ELSE dict
                i == IndexOfId(d1, id)
            IN [d1 EXCEPT ![i].cluster = add_point(@, <<x, y>>)]

RECURSIVE collect_clusters(_, _, _, _)
collect_clusters(reg, cluster_matrix, dict, k) ==
    IF k >= Rows(cluster_matrix) * Cols(cluster_matrix) THEN dict
    ELSE Eager(collect_step(reg, cluster_matrix, dict, k),
               LAMBDA v : collect_clusters(reg, cluster_matrix, v, k + 1))

RECURSIVE dict_values(_, _)
\* list(clusters.values()): the first n values, in insertion order.
dict_values(dict, n) ==
    IF n = 0 THEN <<>> ELSE Append(dict_values(dict, n - 1), dict[n].cluster)

split_into_clusters(reg) ==
    Eager(find_connected_neumann_regions(reg.bitmask),
          LAMBDA cluster_matrix :
              Eager(collect_clusters(reg, cluster_matrix, <<>>, 0),
                    LAMBDA dict : dict_values(dict, Len(dict))))

(***************************************************************************)
(* Node2D, VirtualNode2D, NodeGrid2D                                       *)
(*                                                                         *)
(* A grid entry is [virtual, real_nodes, state]: a plain Node2D is the     *)
(* entry <<id, NoNode>> with virtual = FALSE and state 0, a VirtualNode2D  *)
(* holds the ids of its two real nodes and its state.                      *)
(***************************************************************************)
Node2D(x, y, next, prev) == [x |-> x, y |-> y, next |-> next, prev |-> prev]

PlainEntry(id) == [virtual |-> FALSE, real_nodes |-> <<id, NoNode>>, state |-> 0]

VirtualNode2D(slot0, slot1) ==
    [virtual |-> TRUE, real_nodes |-> <<slot0, slot1>>, state |-> 0]

\* VirtualNode2D.current; for a plain entry, the node itself.
current(entry) == entry.real_nodes[entry.state + 1]

flip(entry) == [entry EXCEPT !.state = IF entry.state # 0 THEN 0 ELSE 1]

\* PointEq that compares x only.
PointEq_x_only(n1, n2) == n1.x = n2.x

\* Point2D.__eq__ of two nodes: equal coordinates, whatever the objects.
PointEq(n1, n2) == n1.x = n2.x /\ n1.y = n2.y

RECURSIVE fresh_nodes(_, _)
\* The first n objects the nested comprehension of NodeGrid2D creates.
fresh_nodes(width, n) ==
    IF n = 0 THEN <<>>
    ELSE Append(fresh_nodes(width, n - 1),
                Node2D((n - 1) % width, (n - 1) \div width, NoNode, NoNode))

\* NodeGrid2D(width, height): node y * width + x + 1 is Node2D(x, y).
NodeGrid2D(width, height) ==
    [nodes |-> fresh_nodes(width, width * height),
     data |-> [y \in 0..(height - 1) |->
                   [x \in 0..(width - 1) |-> PlainEntry(y * width + x + 1)]]]

top_left_of(x, y) == <<x, y>>
top_right_of(x, y) == <<x + 1, y>>
bottom_right_of(x, y) == <<x + 1, y + 1>>
bottom_left_of(x, y) == <<x, y + 1>>

EntryAt(g, p) == g.data[p[2]][p[1]]

\* split_endpoint that leaves the neighbours of the old node linked to it.
split_endpoint_no_relink(g, old, field, other) ==
    LET o == g.nodes[old]
        slot0 == Len(g.nodes) + 1
        slot1 == Len(g.nodes) + 2
        n0 == g.nodes \o <<Node2D(o.x, o.y, o.next, o.prev),
                           Node2D(o.x, o.y, NoNode, NoNode)>>
        n3 == IF field = "next" THEN [n0 EXCEPT ![slot1].next = other]
                                ELSE [n0 EXCEPT ![slot1].prev = other]
    IN [nodes |-> n3,
        data |-> [g.data EXCEPT ![o.y][o.x] =
                      [virtual |-> TRUE, real_nodes |-> <<slot0, slot1>>, state |-> 1]]]

\* The body of either `if` of connect: the node `old` (the current real node
\* of the endpoint) becomes slot 0 of a new VirtualNode2D, as a copy that its
\* neighbours are relinked to; slot 1 is fresh and becomes current; the link
\* `field` of slot 1 is set to `other`; the grid holds the virtual node.
split_endpoint(g, old, field, other) ==
    LET o == g.nodes[old]
        slot0 == Len(g.nodes) + 1
        slot1 == Len(g.nodes) + 2
        n0 == g.nodes \o <<Node2D(o.x, o.y, o.next, o.prev),
                           Node2D(o.x, o.y, NoNode, NoNode)>>
        n1 == [n0 EXCEPT ![n0[slot0].prev].next = slot0]
        n2 == [n1 EXCEPT ![n1[slot0].next].prev = slot0]
        n3 == IF field = "next" THEN [n2 EXCEPT ![slot1].next = other]
                                ELSE [n2 EXCEPT ![slot1].prev = other]
    IN [nodes |-> n3,
        data |-> [g.data EXCEPT ![o.y][o.x] = flip(VirtualNode2D(slot0, slot1))]]

HasBothLinks(g, id) == g.nodes[id].prev # NoNode /\ g.nodes[id].next # NoNode

\* NodeGrid2D.connect(node_1, node_2), the arguments being the grid entries
\* at p1 and p2 at the time of the call.  r1 and r2 are the real nodes that
\* node_1 and node_2 stand for in the last two assignments.
\* connect that links the two current nodes whatever links they have.
connect_overwrites(g, p1, p2) ==
    LET node_1 == current(EntryAt(g, p1))
        node_2 == current(EntryAt(g, p2))
    IN [g EXCEPT !.nodes = [[g.nodes EXCEPT ![node_1].next = node_2]
                                     EXCEPT ![node_2].prev = node_1]]

connect(g, p1, p2) ==
    LET node_1 == current(EntryAt(g, p1))
        node_2 == current(EntryAt(g, p2))
        split_1 == HasBothLinks(g, node_1)
        r1 == IF split_1 THEN Len(g.nodes) + 2 ELSE node_1
        second(g1) ==
            LET split_2 == HasBothLinks(g1, node_2)
                r2 == IF split_2 THEN Len(g1.nodes) + 2 ELSE node_2
                last(g2) ==
                    [g2 EXCEPT !.nodes = [[g2.nodes EXCEPT ![r1].next = r2]
                                                    EXCEPT ![r2].prev = r1]]
            IN Eager(IF split_2 THEN split_endpoint(g1, node_2, "prev", r1) ELSE g1,
                     last)
    IN Eager(IF split_1 THEN split_endpoint(g, node_1, "next", node_2) ELSE g,
             second)

(***************************************************************************)
(* trace_bitmask                                                           *)
(***************************************************************************)
\* ConnectIf that takes only a 0 neighbour, not an absent one, for outside.
ConnectIf_zero_only(g, neighbor, p1, p2) ==
    IF neighbor = 0 THEN connect(g, p1, p2) ELSE g

\* `if neighbor in (0, None): node_grid.connect(...)`
ConnectIf(g, neighbor, p1, p2) ==
    IF neighbor \in {0, Absent} THEN connect(g, p1, p2) ELSE g

\* The four `if`s of one pixel.
\* trace_pixel that constructs the pixel edges counter clockwise.
trace_pixel_reversed(g, bitmask, x, y) ==
    LET neighbors == np_neumann_neighbors(bitmask, x, y)
        left(g3) == ConnectIf(g3, neighbors.left,
                              top_left_of(x, y), bottom_left_of(x, y))
        bottom(g2) == Eager(ConnectIf(g2, neighbors.bottom,
                                      bottom_left_of(x, y), bottom_right_of(x, y)),
                            left)
        right(g1) == Eager(ConnectIf(g1, neighbors.right,
                                     bottom_right_of(x, y), top_right_of(x, y)),
                           bottom)
    IN Eager(ConnectIf(g, neighbors.top, top_right_of(x, y), top_left_of(x, y)),
             right)

trace_pixel(g, bitmask, x, y) ==
    LET neighbors == np_neumann_neighbors(bitmask, x, y)
        left(g3) == ConnectIf(g3, neighbors.left,
                              bottom_left_of(x, y), top_left_of(x, y))
        bottom(g2) == Eager(ConnectIf(g2, neighbors.bottom,
                                      bottom_right_of(x, y), bottom_left_of(x, y)),
                            left)
        right(g1) == Eager(ConnectIf(g1, neighbors.right,
                                     top_right_of(x, y), bottom_right_of(x, y)),
                           bottom)
    IN Eager(ConnectIf(g, neighbors.top, top_left_of(x, y), top_right_of(x, y)),
             right)

\* The four `if` statements of a pixel are numbered 0 (top) to 3 (left);
\* statement j of pixel k = y * width + x is at position 4 * k + j.
SideNeighbor(neighbors, j) ==
    CASE j = 0 -> neighbors.top [] j = 1 -> neighbors.right
      [] j = 2 -> neighbors.bottom [] j = 3 -> neighbors.left

SideFrom(x, y, j) ==
    CASE j = 0 -> top_left_of(x, y) [] j = 1 -> top_right_of(x, y)
      [] j = 2 -> bottom_right_of(x, y) [] j = 3 -> bottom_left_of(x, y)

SideTo(x, y, j) ==
    CASE j = 0 -> top_right_of(x, y) [] j = 1 -> bottom_right_of(x, y)
      [] j = 2 -> bottom_left_of(x, y) [] j = 3 -> top_left_of(x, y)

\* The `if` statement at position pos.
trace_statement(g, bitmask, pos) ==
    LET k == pos \div 4
        x == k % Cols(bitmask)
        y == k \div Cols(bitmask)
    IN ConnectIf(g, SideNeighbor(np_neumann_neighbors(bitmask, x, y), pos % 4),
                 SideFrom(x, y, pos % 4), SideTo(x, y, pos % 4))

\* The position after the last statement.
EndPos(bitmask) == 4 * Rows(bitmask) * Cols(bitmask)

\* The first position after pos at a pixel with `bitmask[y][x] == 1`.
NextPos(bitmask, pos) ==
    LET after == {q \in (pos + 1)..(EndPos(bitmask) - 1) :
                     bitmask[(q \div 4) \div Cols(bitmask)][(q \div 4) % Cols(bitmask)] = 1}
    IN IF after = {} THEN EndPos(bitmask)
       ELSE CHOOSE q \in after : \A r \in after : q <= r

RECURSIVE trace_scan(_, _, _)
\* The loops over the pixels, from pixel k = y * width + x on.
trace_scan(g, bitmask, k) ==
    LET width == Cols(bitmask)
        x == k % width
        y == k \div width
    IN IF k >= Rows(bitmask) * width THEN g
       ELSE Eager(IF bitmask[y][x] = 1 THEN trace_pixel(g, bitmask, x, y) ELSE g,
                  LAMBDA v : trace_scan(v, bitmask, k + 1))

trace_bitmask(bitmask) ==
    Eager(NodeGrid2D(Cols(bitmask) + 1, Rows(bitmask) + 1),
          LAMBDA g : trace_scan(g, bitmask, 0))

(***************************************************************************)
(* extract_node_loops                                                      *)
(*                                                                         *)
(* `node == origin` and `node in visited` are Point2D.__eq__/__hash__:     *)
(* they compare coordinates, so visited is a set of <<x, y>>.  A walk that *)
(* would never end is reported with status "diverges".                     *)
(***************************************************************************)
Coords(n) == <<n.x, n.y>>

RECURSIVE walk_to_origin(_, _, _, _)
\* while node.next != None and node != origin: visited.add(node); node = node.next
\* on st = [node, visited].
walk_to_origin(nodes, origin, st, fuel) ==
    IF nodes[st.node].next # NoNode /\ ~PointEq(nodes[st.node], nodes[origin])
    THEN IF fuel = 0
         THEN [status |-> "diverges", node |-> st.node, visited |-> st.visited]
         ELSE Eager([node |-> nodes[st.node].next,
                     visited |-> st.visited \cup {Coords(nodes[st.node])}],
                    LAMBDA v : walk_to_origin(nodes, origin, v, fuel - 1))
    ELSE [status |-> "ok", node |-> st.node, visited |-> st.visited]

\* extract_step that does not keep the nodes its walk has visited.
extract_step_forgets_visited(g, st, k) ==
    LET cols == Cols(g.data)
        origin == current(g.data[k \div cols][k % cols])
        walked(r) ==
            IF r.status # "ok"
            THEN [status |-> r.status, loops |-> st.loops, visited |-> st.visited]
            ELSE IF PointEq(g.nodes[r.node], g.nodes[origin])
                 THEN [status |-> "ok", loops |-> Append(st.loops, r.node),
                       visited |-> st.visited]
                 ELSE [status |-> "IsNotEnclosed", loops |-> st.loops,
                       visited |-> st.visited]
    IN IF g.nodes[origin].next # NoNode /\ Coords(g.nodes[origin]) \notin st.visited
       THEN Eager(walk_to_origin(g.nodes, origin,
                                 [node |-> g.nodes[origin].next, visited |-> st.visited],
                                 Len(g.nodes)),
                  walked)
       ELSE st

\* One iteration of the loops over node_grid.data, at entry k, on
\* st = [status, loops, visited].
extract_step(g, st, k) ==
    LET cols == Cols(g.data)
        origin == current(g.data[k \div cols][k % cols])
        walked(r) ==
            IF r.status # "ok"
            THEN [status |-> r.status, loops |-> st.loops, visited |-> r.visited]
            ELSE IF PointEq(g.nodes[r.node], g.nodes[origin])
                 THEN [status |-> "ok", loops |-> Append(st.loops, r.node),
                       visited |-> r.visited]
                 ELSE [status |-> "IsNotEnclosed", loops |-> st.loops,
                       visited |-> r.visited]
    IN IF g.nodes[origin].next # NoNode /\ Coords(g.nodes[origin]) \notin st.visited
       THEN Eager(walk_to_origin(g.nodes, origin,
                                 [node |-> g.nodes[origin].next, visited |-> st.visited],
                                 Len(g.nodes)),
                  walked)
       ELSE st

RECURSIVE extract_scan(_, _, _)
extract_scan(g, st, k) ==
    IF k >= Rows(g.data) * Cols(g.data) \/ st.status # "ok" THEN st
    ELSE Eager(extract_step(g, st, k), LAMBDA v : extract_scan(g, v, k + 1))

\* The result is [status, loops]: the origins of the NodeLoops returned, or
\* the exception raised.
extract_node_loops(g) ==
    Eager(extract_scan(g, [status |-> "ok", loops |-> <<>>, visited |-> {}], 0),
          LAMBDA st : [status |-> st.status, loops |-> st.loops])

(***************************************************************************)
(* NodeLoop.optimize                                                       *)
(***************************************************************************)
\* The `if` of the loop body at node: node is spliced out when its
\* neighbours share a coordinate.
\* splice without the test: the node is always taken out.
splice_always(nodes, node) ==
    LET nx == nodes[node].next
        pv == nodes[node].prev
    IN [[nodes EXCEPT ![pv].next = nx] EXCEPT ![nx].prev = pv]

\* splice whose test is the x comparison alone.
splice_same_x_only(nodes, node) ==
    LET nx == nodes[node].next
        pv == nodes[node].prev
    IN IF nodes[nx].x = nodes[pv].x
       THEN [[nodes EXCEPT ![pv].next = nx] EXCEPT ![nx].prev = pv]
       ELSE nodes

splice(nodes, node) ==
    LET nx == nodes[node].next
        pv == nodes[node].prev
    IN IF nodes[nx].x = nodes[pv].x \/ nodes[nx].y = nodes[pv].y
       THEN [[nodes EXCEPT ![pv].next = nx] EXCEPT ![nx].prev = pv]
       ELSE nodes

RECURSIVE optimize_walk(_, _, _, _)
\* One iteration of `while True` at node; a None link makes the attribute
\* access fail with AttributeError.
optimize_walk(nodes, origin, node, fuel) ==
    IF nodes[node].next = NoNode \/ nodes[node].prev = NoNode
    THEN [status |-> "AttributeError", nodes |-> nodes]
    ELSE LET continue(spliced) ==
                 LET following == spliced[node].next
                 IN IF PointEq(spliced[following], spliced[origin])
                    THEN [status |-> "ok", nodes |-> spliced]
                    ELSE IF fuel = 0
                         THEN [status |-> "diverges", nodes |-> spliced]
                         ELSE optimize_walk(spliced, origin, following, fuel - 1)
         IN Eager(splice(nodes, node), continue)

RECURSIVE optimize_walk_once(_, _, _, _)
\* optimize_walk that returns after the first node it deletes.
optimize_walk_once(nodes, origin, node, fuel) ==
    IF nodes[node].next = NoNode \/ nodes[node].prev = NoNode
    THEN [status |-> "AttributeError", nodes |-> nodes]
    ELSE LET continue(spliced) ==
                 LET following == spliced[node].next
                 IN IF spliced # nodes \/ PointEq(spliced[following], spliced[origin])
                    THEN [status |-> "ok", nodes |-> spliced]
                    ELSE IF fuel = 0
                         THEN [status |-> "diverges", nodes |-> spliced]
                         ELSE optimize_walk_once(spliced, origin, following, fuel - 1)
         IN Eager(splice(nodes, node), continue)

optimize_once(nodes, origin) == optimize_walk_once(nodes, origin, origin, Len(nodes))

\* The result is [status, nodes]: the heap after the call.
optimize(nodes, origin) == optimize_walk(nodes, origin, origin, Len(nodes))

RECURSIVE optimize_all(_, _, _)
\* [loop.optimize() for loop in node_loops], from loop i on.
optimize_all(nodes, loops, i) ==
    IF i > Len(loops) THEN [status |-> "ok", nodes |-> nodes]
    ELSE Eager(optimize(nodes, loops[i]),
               LAMBDA r : IF r.status # "ok" THEN r
                          ELSE optimize_all(r.nodes, loops, i + 1))

(***************************************************************************)
(* SVG                                                                     *)
(*                                                                         *)
(* Path data is the sequence of its commands; a command is its letter and  *)
(* the two numbers the f-string prints after it (none for Z).              *)
(***************************************************************************)
\* svg_m that leaves the scale out.
svg_m_unscaled(node, scale) == [cmd |-> "M", x |-> node.x, y |-> node.y]

svg_m(node, scale) == [cmd |-> "M", x |-> node.x * scale, y |-> node.y * scale]
\* svg_l with the coordinates in the wrong order.
svg_l_swapped(node, scale) == [cmd |-> "L", x |-> node.y * scale, y |-> node.x * scale]

svg_l(node, scale) == [cmd |-> "L", x |-> node.x * scale, y |-> node.y * scale]
svg_z == [cmd |-> "Z", x |-> 0, y |-> 0]

RECURSIVE path_walk(_, _, _, _, _, _)
\* while node.next != origin: node = node.next; path_data += _l(node)
path_walk(nodes, origin, node, scale, path_data, fuel) ==
    LET nx == nodes[node].next
    IN IF nx = NoNode THEN [status |-> "AttributeError", data |-> path_data]
       ELSE IF ~PointEq(nodes[nx], nodes[origin])
            THEN IF fuel = 0
                 THEN [status |-> "diverges", data |-> path_data]
                 ELSE Eager(Append(path_data, svg_l(nodes[nx], scale)),
                            LAMBDA v : path_walk(nodes, origin, nx, scale, v, fuel - 1))
            ELSE [status |-> "ok", data |-> Append(path_data, svg_z)]

\* loop_to_path_data that starts at the node after the loop's origin.
loop_to_path_data_from_next(nodes, origin, scale) ==
    path_walk(nodes, nodes[origin].next, nodes[origin].next, scale,
              <<svg_m(nodes[nodes[origin].next], scale)>>, Len(nodes))

\* The result is [status, data].
loop_to_path_data(nodes, origin, scale) ==
    path_walk(nodes, origin, origin, scale, <<svg_m(nodes[origin], scale)>>, Len(nodes))

RECURSIVE join_path_data(_, _, _, _, _)
\* ''.join(map(svg.loop_to_path_data, node_loops)), from loop i on, joined
\* to the data of the loops before it.
join_path_data(nodes, loops, scale, i, joined) ==
    IF i > Len(loops) THEN [status |-> "ok", data |-> joined]
    ELSE Eager(loop_to_path_data(nodes, loops[i], scale),
               LAMBDA r : IF r.status # "ok" THEN r
                          ELSE join_path_data(nodes, loops, scale, i + 1,
                                              joined \o r.data))

(***************************************************************************)
(* The pipeline of main for one colour region (lines 675-688): the region  *)
(* is split into clusters, then each cluster is traced, its loops are      *)
(* extracted and optimized, and its path is added to the document.         *)
(***************************************************************************)
\* --scale's default.
RECURSIVE build_paths(_, _, _, _)
\* One <path d=... fill=... /> for every SVGPath of self.paths, in order.
build_paths(datas, colors, i, out) ==
    IF i > Len(datas) THEN out
    ELSE Eager(Append(out, [d |-> datas[i], fill |-> colors[i]]),
               LAMBDA v : build_paths(datas, colors, i + 1, v))

\* The <svg> element: its declared width and height and its paths.
build_svg(width, height, s, datas, colors) ==
    [width |-> width * s, height |-> height * s,
     paths |-> build_paths(datas, colors, 1, <<>>)]

\* The parts that are not running.
NoDriver == [pc |-> "none"]
NoLabeler == [pc |-> "none"]

\* No document has been built.
NoDocument == [width |-> 0, height |-> 0, paths |-> <<>>]

Scale == 1

(***************************************************************************)
(* get_distinct_color_regions                                              *)
(***************************************************************************)
\* Position in the dict `regions` (a sequence of [key, value] in insertion
\* order) of the key pix_hex.
KeyIndex(items, pix_hex) == CHOOSE i \in 1..Len(items) : items[i].key = pix_hex

\* color_step that puts a new colour's region in front of the others.
color_step_prepends(image, st, x, y) ==
    LET pixel == image[y][x]
        pix_hex == to_hex(Color(pixel.r, pixel.g, pixel.b, pixel.a))
        known(st1) ==
            LET i == KeyIndex(st1.regions, pix_hex)
            IN [known_colors |-> st1.known_colors,
                regions |-> [st1.regions EXCEPT
                                ![i].value = add_point(@, <<x, y>>)]]
    IN Eager(IF pix_hex \notin st.known_colors
             THEN [known_colors |-> st.known_colors \cup {pix_hex},
                   regions |->
                       <<[key |-> pix_hex,
                          value |-> Color2DRegion(Color(pixel.r, pixel.g, pixel.b, pixel.a),
                                                  Cols(image), Rows(image))]>>
                       \o st.regions]
             ELSE st,
             known)

\* The body of the loops at pixel (x, y), on st = [known_colors, regions].
color_step(image, st, x, y) ==
    LET pixel == image[y][x]
        pix_hex == to_hex(Color(pixel.r, pixel.g, pixel.b, pixel.a))
        known(st1) ==
            LET i == KeyIndex(st1.regions, pix_hex)
            IN [known_colors |-> st1.known_colors,
                regions |-> [st1.regions EXCEPT
                                ![i].value = add_point(@, <<x, y>>)]]
    IN Eager(IF pix_hex \notin st.known_colors
             THEN [known_colors |-> st.known_colors \cup {pix_hex},
                   regions |-> Append(st.regions,
                       [key |-> pix_hex,
                        value |-> Color2DRegion(Color(pixel.r, pixel.g, pixel.b, pixel.a),
                                                Cols(image), Rows(image))])]
             ELSE st,
             known)

RECURSIVE color_scan(_, _, _)
\* The loops over the pixels, from pixel k = y * width + x on.
color_scan(image, st, k) ==
    IF k >= Rows(image) * Cols(image) THEN st
    ELSE Eager(color_step(image, st, k % Cols(image), k \div Cols(image)),
               LAMBDA v : color_scan(image, v, k + 1))

RECURSIVE region_values(_, _, _)
region_values(items, i, out) ==
    IF i > Len(items) THEN out
    ELSE Eager(Append(out, items[i].value), LAMBDA v : region_values(items, i + 1, v))

\* list(regions.values())
get_distinct_color_regions(image) ==
    region_values(color_scan(image, [known_colors |-> {}, regions |-> <<>>], 0).regions,
                  1, <<>>)

\* is_opaque that takes every alpha above 0.
is_opaque_any_alpha(r) == r.color.a > 0

\* `if r.color.a == 255`
is_opaque(r) == r.color.a = 255

RECURSIVE opaque_regions(_, _, _)
\* [r for r in ... if r.color.a == 255]
opaque_regions(rs, i, out) ==
    IF i > Len(rs) THEN out
    ELSE Eager(IF is_opaque(rs[i]) THEN Append(out, rs[i]) ELSE out,
               LAMBDA v : opaque_regions(rs, i + 1, v))

RECURSIVE collect_groups(_, _, _)
collect_groups(out, cs, j) ==
    IF j > Len(cs) THEN out
    ELSE Eager(Append(out, cs[j]), LAMBDA v : collect_groups(v, cs, j + 1))

RECURSIVE cluster_groups(_, _, _)
\* [cluster for region in color_regions for cluster in split_into_clusters(region)]
cluster_groups(rs, i, out) ==
    IF i > Len(rs) THEN out
    ELSE Eager(collect_groups(out, split_into_clusters(rs[i]), 1),
               LAMBDA v : cluster_groups(rs, i + 1, v))

\* Lines 682-688 for one cluster: the path data and the fill of its SVGPath.
cluster_path(cluster, s) ==
    LET joined(g, loops) ==
            Eager(optimize_all(g.nodes, loops, 1),
                  LAMBDA o : join_path_data(o.nodes, loops, s, 1, <<>>).data)
        traced(g) == Eager(extract_node_loops(g), LAMBDA e : joined(g, e.loops))
    IN [d |-> Eager(trace_bitmask(cluster.bitmask), traced),
        fill |-> to_hex(cluster.color)]

RECURSIVE cluster_paths(_, _, _, _)
cluster_paths(cs, s, i, out) ==
    IF i > Len(cs) THEN out
    ELSE Eager(Append(out, cluster_path(cs[i], s)),
               LAMBDA v : cluster_paths(cs, s, i + 1, v))

\* Lines 665-695 as a function of the image and the scale: the document
\* that is written for the image.
render(image, s) ==
    [width |-> Cols(image) * s, height |-> Rows(image) * s,
     paths |-> cluster_paths(
                   cluster_groups(
                       opaque_regions(get_distinct_color_regions(image), 1, <<>>),
                       1, <<>>),
                   s, 1, <<>>)]

\* The pixel values the model's images are made of; 01 10 and 11 00 have
\* the same hexadecimal digits once their leading zeros are dropped.
Palette ==
    {Color(1, 16, 0, 255), Color(17, 0, 0, 255), Color(0, 0, 0, 255),
     Color(0, 0, 0, 0), Color(0, 0, 0, 254), Color(255, 255, 255, 255)}

Images(width, height) == [0..(height - 1) -> [0..(width - 1) -> Palette]]

Opaque == [r |-> 0, g |-> 0, b |-> 0, a |-> 255]

Bitmasks(width, height) == [0..(height - 1) -> [0..(width - 1) -> {0, 1}]]

Points(width, height) == {<<x, y>> : x \in 0..(width - 1), y \in 0..(height - 1)}

\* The Color2DRegion that add_point of every 1-cell of mask builds.
RegionOf(color, mask) ==
    [color |-> color, width |-> Cols(mask), height |-> Rows(mask),
     bitmask |-> mask,
     data |-> {p \in Points(Cols(mask), Rows(mask)) : mask[p[2]][p[1]] = 1}]

EmptyGrid == [nodes |-> <<>>, data |-> <<>>]

Init ==
    /\ region \in {RegionOf(Opaque, mask) : mask \in Bitmasks(W, H)}
    /\ pc = "split"
    /\ clusters = <<>>
    /\ ci = 0
    /\ node_grid = EmptyGrid
    /\ node_loops = <<>>
    /\ paths = <<>>
    /\ error = "none"
    /\ opt_calls = 0
    /\ first_pass = <<>>
    /\ img = <<>>
    /\ regions = <<>>
    /\ color_regions = <<>>
    /\ svg_scale = Scale
    /\ fills = <<>>
    /\ document = NoDocument
    /\ driver = NoDriver
    /\ trace_pos = 0
    /\ labeler = NoLabeler
    /\ point_set = Point2DSet(0, 0)

\* line 675
SplitIntoClusters ==
    /\ pc = "split"
    /\ clusters' = split_into_clusters(region)
    /\ ci' = 1
    /\ pc' = IF clusters' = <<>> THEN "done" ELSE "trace"
    /\ UNCHANGED <<region, node_grid, node_loops, paths, error, opt_calls,
                   first_pass, img, regions, color_regions, svg_scale, fills,
                   document>>
    /\ UNCHANGED part_vars

\* line 682
TraceBitmask ==
    /\ pc = "trace"
    /\ node_grid' = trace_bitmask(clusters[ci].bitmask)
    /\ node_loops' = <<>>
    /\ opt_calls' = 0
    /\ pc' = "extract"
    /\ UNCHANGED <<region, clusters, ci, paths, error, first_pass, img,
                   regions, color_regions, svg_scale, fills, document>>
    /\ UNCHANGED part_vars

\* line 683; an exception leaves the loop over the clusters.
ExtractNodeLoops ==
    /\ pc = "extract"
    /\ \E r \in {extract_node_loops(node_grid)} :
          /\ node_loops' = r.loops
          /\ error' = IF r.status = "ok" THEN error ELSE r.status
          /\ pc' = IF r.status = "ok" THEN "optimize" ELSE "failed"
    /\ UNCHANGED <<region, clusters, ci, node_grid, paths, opt_calls,
                   first_pass, img, regions, color_regions, svg_scale, fills,
                   document>>
    /\ UNCHANGED part_vars

\* line 684
OptimizeLoops ==
    /\ pc = "optimize"
    /\ \E r \in {optimize_all(node_grid.nodes, node_loops, 1)} :
          /\ node_grid' = [node_grid EXCEPT !.nodes = r.nodes]
          /\ first_pass' = r.nodes
          /\ error' = IF r.status = "ok" THEN error ELSE r.status
          /\ pc' = IF r.status = "ok" THEN "add_path" ELSE "failed"
    /\ opt_calls' = 1
    /\ UNCHANGED <<region, clusters, ci, node_loops, paths, img, regions,
                   color_regions, svg_scale, fills, document>>
    /\ UNCHANGED part_vars

\* lines 685-688
AddPath ==
    /\ pc = "add_path"
    /\ \E r \in {join_path_data(node_grid.nodes, node_loops, svg_scale, 1, <<>>)} :
          /\ paths' = IF r.status = "ok" THEN Append(paths, r.data) ELSE paths
          /\ fills' = IF r.status = "ok" THEN Append(fills, to_hex(clusters[ci].color))
                      ELSE fills
          /\ error' = IF r.status = "ok" THEN error ELSE r.status
          /\ pc' = IF r.status # "ok" THEN "failed"
                   ELSE IF ci = Len(clusters) THEN "done" ELSE "trace"
          /\ ci' = IF r.status = "ok" THEN ci + 1 ELSE ci
    /\ UNCHANGED <<region, clusters, node_grid, node_loops, opt_calls,
                   first_pass, img, regions, color_regions, svg_scale, document>>
    /\ UNCHANGED part_vars

\* line 695: svg.build_svg(), once the loop over the clusters has ended.
BuildSvg ==
    /\ pc = "done"
    /\ document' = build_svg(region.width, region.height, svg_scale, paths, fills)
    /\ pc' = "built"
    /\ UNCHANGED <<region, clusters, ci, node_grid, node_loops, paths, error,
                   opt_calls, first_pass, img, regions, color_regions, svg_scale,
                   fills>>
    /\ UNCHANGED part_vars

Next ==
    \/ SplitIntoClusters \/ TraceBitmask \/ ExtractNodeLoops \/ OptimizeLoops
    \/ AddPath \/ BuildSvg

Spec == Init /\ [][Next]_vars

\* A further loop.optimize() on every loop of the cluster, as a caller of
\* NodeLoop may do before the path is emitted.
OptimizeAgain ==
    /\ pc = "add_path"
    /\ opt_calls < MaxOptimizeCalls
    /\ \E r \in {optimize_all(node_grid.nodes, node_loops, 1)} :
          /\ node_grid' = [node_grid EXCEPT !.nodes = r.nodes]
          /\ error' = IF r.status = "ok" THEN error ELSE r.status
          /\ pc' = IF r.status = "ok" THEN "add_path" ELSE "failed"
    /\ opt_calls' = opt_calls + 1
    /\ UNCHANGED <<region, clusters, ci, node_loops, paths, first_pass, img,
                   regions, color_regions, svg_scale, fills, document>>
    /\ UNCHANGED part_vars

NextOptimize == Next \/ OptimizeAgain

SpecOptimize == Init /\ [][NextOptimize]_vars

\* trace_bitmask up to its loops: the grid of unlinked nodes.
StartTrace ==
    /\ pc = "trace"
    /\ node_grid' = NodeGrid2D(Cols(clusters[ci].bitmask) + 1,
                               Rows(clusters[ci].bitmask) + 1)
    /\ trace_pos' = NextPos(clusters[ci].bitmask, -1)
    /\ node_loops' = <<>>
    /\ opt_calls' = 0
    /\ pc' = "tracing"
    /\ UNCHANGED <<region, clusters, ci, paths, error, first_pass, svg_scale,
                   fills, document, image_vars, driver, labeler, point_set>>

\* One `if neighbors.side in (0, None): node_grid.connect(...)` of
\* trace_bitmask, and the loops' advance to the next one.
TraceStep ==
    /\ pc = "tracing"
    /\ \E g \in {trace_statement(node_grid, clusters[ci].bitmask, trace_pos)} :
          node_grid' = g
    /\ trace_pos' = NextPos(clusters[ci].bitmask, trace_pos)
    /\ pc' = IF trace_pos' = EndPos(clusters[ci].bitmask) THEN "extract"
             ELSE "tracing"
    /\ UNCHANGED <<region, clusters, ci, node_loops, paths, error, opt_calls,
                   first_pass, svg_scale, fills, document, image_vars, driver,
                   labeler, point_set>>

\* The pipeline with trace_bitmask run statement by statement.
NextConnect ==
    \/ SplitIntoClusters \/ StartTrace \/ TraceStep \/ ExtractNodeLoops
    \/ OptimizeLoops \/ AddPath \/ BuildSvg

SpecConnect == Init /\ [][NextConnect]_vars

\* No image is being converted.
IdlePipeline ==
    /\ pc = "idle"
    /\ region = Color2DRegion(Opaque, 0, 0)
    /\ clusters = <<>>
    /\ ci = 0
    /\ node_grid = EmptyGrid
    /\ node_loops = <<>>
    /\ paths = <<>>
    /\ error = "none"
    /\ opt_calls = 0
    /\ first_pass = <<>>
    /\ img = <<>>
    /\ regions = <<>>
    /\ color_regions = <<>>
    /\ svg_scale = Scale
    /\ fills = <<>>
    /\ document = NoDocument
    /\ driver = NoDriver
    /\ trace_pos = 0

\* The one-row bitmask of the given width with a 1 in every other cell:
\* each 1-cell is a component of its own.
Comb(width) == [y \in 0..0 |-> [x \in 0..(width - 1) |-> IF x % 2 = 0 THEN 1 ELSE 0]]

\* The values an element of the label matrix can hold (dtype int8,
\* np.zeros_like of the int8 bitmask).
Int8 == -128..127

\* find_connected_neumann_regions up to its loops.
InitLabel ==
    /\ IdlePipeline
    /\ point_set = Point2DSet(0, 0)
    /\ labeler \in {[pc |-> "scan", bitmask |-> Comb(n),
                      st |-> [regions |-> zeros(1, n), region_id |-> 1, y |-> 0],
                      k |-> 0] : n \in 1..MaxCols}

\* One iteration of the inner for loop.  Storing a Python int outside the
\* int8 range in the label matrix depends on the numpy installed (the
\* repository pins none): it wraps modulo 2^8 or raises OverflowError.
LabelStep ==
    /\ labeler.pc = "scan"
    /\ LET mask == labeler.bitmask
           x == labeler.k % Cols(mask)
           y == IF x = 0 THEN labeler.k \div Cols(mask) ELSE labeler.st.y
           stores == mask[y][x] = 1 /\ labeler.st.regions[y][x] = 0
           last == labeler.k + 1 = Rows(mask) * Cols(mask)
       IN \/ /\ stores /\ labeler.st.region_id \notin Int8
             /\ labeler' = [labeler EXCEPT !.pc = "OverflowError"]
          \/ \E r \in {label_step(mask, labeler.st, labeler.k)} :
                labeler' = [labeler EXCEPT !.st = r, !.k = @ + 1,
                                           !.pc = IF last THEN "labelled" ELSE "scan"]
    /\ UNCHANGED <<cluster_vars, image_vars, pc, driver, trace_pos, point_set>>

NextLabel == LabelStep

SpecLabel == InitLabel /\ [][NextLabel]_vars

\* The coordinates handed to add_point and remove_point: the valid ones,
\* the negative ones numpy accepts, and one more on either side.
Coordinates ==
    {<<x, y>> : x \in (-(SetW + 1))..SetW, y \in (-(SetH + 1))..SetH}

InitPoints ==
    /\ IdlePipeline
    /\ labeler = NoLabeler
    /\ point_set = Point2DSet(SetW, SetH)

AddPoint ==
    /\ \E point \in Coordinates : point_set' = add_point(point_set, point)
    /\ UNCHANGED <<cluster_vars, image_vars, pc, driver, trace_pos, labeler>>

RemovePoint ==
    /\ \E point \in Coordinates : point_set' = remove_point(point_set, point)
    /\ UNCHANGED <<cluster_vars, image_vars, pc, driver, trace_pos, labeler>>

NextPoints == AddPoint \/ RemovePoint

SpecPoints == InitPoints /\ [][NextPoints]_vars

\* main called with any --scale from 0 on, before its check of the scale.
InitScale ==
    /\ svg_scale \in 0..MaxScale
    /\ pc = "start"
    /\ region \in {RegionOf(Opaque, mask) : mask \in Bitmasks(W, H)}
    /\ clusters = <<>>
    /\ ci = 0
    /\ node_grid = EmptyGrid
    /\ node_loops = <<>>
    /\ paths = <<>>
    /\ error = "none"
    /\ opt_calls = 0
    /\ first_pass = <<>>
    /\ img = <<>>
    /\ regions = <<>>
    /\ color_regions = <<>>
    /\ fills = <<>>
    /\ document = NoDocument
    /\ driver = NoDriver
    /\ trace_pos = 0
    /\ labeler = NoLabeler
    /\ point_set = Point2DSet(0, 0)

\* lines 614-619: `if scale < 1: ... sys.exit(1)`
CheckScale ==
    /\ pc = "start"
    /\ pc' = IF svg_scale < 1 THEN "exit" ELSE "split"
    /\ UNCHANGED <<image_vars, cluster_vars>>
    /\ UNCHANGED part_vars

NextScale == CheckScale \/ Next

SpecScale == InitScale /\ [][NextScale]_vars

(***************************************************************************)
(* The loop of main over the input files                                   *)
(***************************************************************************)
\* What the file system does with a file: whether open and Image.open of the
\* input succeed, and whether the output file can be opened and written.
FileKinds == [open : {"ok", "error"}, write : {"ok", "error"}]

\* The .png files of ./in in the order the loop takes them from the set.
FileLists == UNION {[1..n -> FileKinds] : n \in 0..MaxFiles}

\* The driver's state: files, the index fi of the file of the current
\* iteration, the files saved, the files skipped with a report, and the
\* exception that has left main.
InitFiles ==
    /\ driver \in {[pc |-> "start", files |-> fs, fi |-> 0, saved |-> {},
                    skipped |-> {}, error |-> "none"] : fs \in FileLists}
    /\ trace_pos = 0
    /\ labeler = NoLabeler
    /\ point_set = Point2DSet(0, 0)
    /\ pc = "idle"
    /\ region = Color2DRegion(Opaque, 0, 0)
    /\ clusters = <<>>
    /\ ci = 0
    /\ node_grid = EmptyGrid
    /\ node_loops = <<>>
    /\ paths = <<>>
    /\ error = "none"
    /\ opt_calls = 0
    /\ first_pass = <<>>
    /\ img = <<>>
    /\ regions = <<>>
    /\ color_regions = <<>>
    /\ svg_scale = Scale
    /\ fills = <<>>
    /\ document = NoDocument

\* The end of an iteration of `for file in png_files`, by `continue` or by
\* reaching the end of the body.
next_file(d) ==
    IF d.fi = Len(d.files) THEN [d EXCEPT !.pc = "finished"]
    ELSE [d EXCEPT !.pc = "open", !.fi = d.fi + 1]

\* lines 621-631
ListFiles ==
    /\ driver.pc = "start"
    /\ driver' = IF Len(driver.files) = 0 THEN [driver EXCEPT !.pc = "exit"]
                  ELSE [driver EXCEPT !.pc = "open", !.fi = 1]
    /\ UNCHANGED <<trace_pos, labeler, point_set, image_vars, cluster_vars, pc>>

\* lines 645-653: the try around open and Image.open, `continue` in its
\* handler.
OpenFile ==
    /\ driver.pc = "open"
    /\ driver' = IF driver.files[driver.fi].open = "error"
                  THEN next_file([driver EXCEPT !.skipped = @ \cup {driver.fi}])
                  ELSE [driver EXCEPT !.pc = "process"]
    /\ UNCHANGED <<trace_pos, labeler, point_set, image_vars, cluster_vars, pc>>

\* lines 655-690: the image is traced into the SVG object.
ProcessFile ==
    /\ driver.pc = "process"
    /\ driver' = [driver EXCEPT !.pc = "save"]
    /\ UNCHANGED <<trace_pos, labeler, point_set, image_vars, cluster_vars, pc>>

\* lines 692-696, inside no try: an exception of open or write leaves the
\* loop and main and is caught at lines 706-709.
SaveFile ==
    /\ driver.pc = "save"
    /\ driver' = IF driver.files[driver.fi].write = "error"
                  THEN [driver EXCEPT !.pc = "error_exit", !.error = "OSError"]
                  ELSE next_file([driver EXCEPT !.saved = @ \cup {driver.fi}])
    /\ UNCHANGED <<trace_pos, labeler, point_set, image_vars, cluster_vars, pc>>

NextFiles == ListFiles \/ OpenFile \/ ProcessFile \/ SaveFile

SpecFiles == InitFiles /\ [][NextFiles]_vars

\* The start of main's work on one file: the image decoded and converted to
\* RGBA (lines 646-655).  region is the empty frame of the image's size.
InitImage ==
    /\ img \in Images(ImgW, ImgH)
    /\ pc = "image"
    /\ regions = <<>>
    /\ color_regions = <<>>
    /\ region = Color2DRegion(Opaque, ImgW, ImgH)
    /\ clusters = <<>>
    /\ ci = 0
    /\ node_grid = EmptyGrid
    /\ node_loops = <<>>
    /\ paths = <<>>
    /\ error = "none"
    /\ opt_calls = 0
    /\ first_pass = <<>>
    /\ svg_scale = Scale
    /\ fills = <<>>
    /\ document = NoDocument
    /\ driver = NoDriver
    /\ trace_pos = 0
    /\ labeler = NoLabeler
    /\ point_set = Point2DSet(0, 0)

\* line 669, the call
GetDistinctColorRegions ==
    /\ pc = "image"
    /\ regions' = get_distinct_color_regions(img)
    /\ pc' = "regions"
    /\ UNCHANGED <<img, color_regions>>
    /\ UNCHANGED cluster_vars
    /\ UNCHANGED part_vars

\* line 669, the filter
FilterOpaque ==
    /\ pc = "regions"
    /\ color_regions' = opaque_regions(regions, 1, <<>>)
    /\ pc' = "filtered"
    /\ UNCHANGED <<img, regions>>
    /\ UNCHANGED cluster_vars
    /\ UNCHANGED part_vars

\* line 675
SplitColorRegions ==
    /\ pc = "filtered"
    /\ clusters' = cluster_groups(color_regions, 1, <<>>)
    /\ ci' = 1
    /\ pc' = IF clusters' = <<>> THEN "done" ELSE "trace"
    /\ UNCHANGED <<region, node_grid, node_loops, paths, error, opt_calls,
                   first_pass, img, regions, color_regions, svg_scale, fills,
                   document>>
    /\ UNCHANGED part_vars

NextImage ==
    \/ GetDistinctColorRegions \/ FilterOpaque \/ SplitColorRegions
    \/ TraceBitmask \/ ExtractNodeLoops \/ OptimizeLoops \/ AddPath \/ BuildSvg

SpecImage == InitImage /\ [][NextImage]_vars

(***************************************************************************)
(* Geometry the properties are stated in.                                  *)
(***************************************************************************)
Ones(mask) == {p \in Points(Cols(mask), Rows(mask)) : mask[p[2]][p[1]] = 1}

Adjacent4(p, q) ==
    \/ p[1] = q[1] /\ (p[2] - q[2]) \in {-1, 1}
    \/ p[2] = q[2] /\ (p[1] - q[1]) \in {-1, 1}

Adjacent8(p, q) ==
    p # q /\ (p[1] - q[1]) \in {-1, 0, 1} /\ (p[2] - q[2]) \in {-1, 0, 1}

RECURSIVE Closure(_, _, _)
\* The cells of `cells` joined to a cell of S by a path in `cells` of
\* horizontal and vertical steps and, when diag, of diagonal steps as well.
Closure(S, cells, diag) ==
    Eager(S \cup {c \in cells :
                     \E d \in S : IF diag THEN Adjacent8(c, d) ELSE Adjacent4(c, d)},
          LAMBDA T : IF T = S THEN S ELSE Closure(T, cells, diag))

Component4(cells, p) == Closure({p}, cells, FALSE)

\* Less-than of the row-major order of points <<x, y>>.
RowMajorBefore(p, q) == p[2] < q[2] \/ (p[2] = q[2] /\ p[1] < q[1])

RowMajorFirst(S) == CHOOSE p \in S : \A q \in S : q = p \/ RowMajorBefore(p, q)

\* Crossing number of the directed segment p1 -> p2 with the ray that leaves
\* the centre of pixel (px, py) in the direction of growing x: +1 when the
\* segment crosses it with y growing, -1 with y falling, 0 when it does not
\* cross.  All in doubled coordinates, so the centre is (2 px + 1, 2 py + 1).
Crossing(p1, p2, px, py) ==
    LET dy == p2[2] - p1[2]
        lo == IF dy > 0 THEN p1[2] ELSE p2[2]
        hi == IF dy > 0 THEN p2[2] ELSE p1[2]
        num == 2 * p1[1] * dy + (2 * py + 1 - 2 * p1[2]) * (p2[1] - p1[1])
               - (2 * px + 1) * dy
    IN IF dy # 0 /\ 2 * lo < 2 * py + 1 /\ 2 * py + 1 < 2 * hi /\ num * dy > 0
       THEN (IF dy > 0 THEN 1 ELSE -1)
       ELSE 0

RECURSIVE WindingFrom(_, _, _, _, _)
\* st = [start, cur, w]: the sub-path's first point, the current point and
\* the winding number of the segments drawn by the commands before i.
WindingFrom(data, i, st, px, py) ==
    IF i > Len(data) THEN st.w
    ELSE LET c == data[i]
             to == IF c.cmd = "Z" THEN st.start ELSE <<c.x, c.y>>
         IN Eager(IF c.cmd = "M"
                  THEN [start |-> to, cur |-> to, w |-> st.w]
                  ELSE [start |-> st.start, cur |-> to,
                        w |-> st.w + Crossing(st.cur, to, px, py)],
                  LAMBDA v : WindingFrom(data, i + 1, v, px, py))

\* Winding number of the sub-paths of data around the centre of pixel (px, py).
Winding(data, px, py) ==
    WindingFrom(data, 1, [start |-> <<0, 0>>, cur |-> <<0, 0>>, w |-> 0], px, py)

\* Non-zero fill of the path data covers exactly the 1-cells of mask.
FillsExactly(data, mask) ==
    \A p \in Points(Cols(mask), Rows(mask)) :
        (Winding(data, p[1], p[2]) # 0) <=> (mask[p[2]][p[1]] = 1)

\* The points of the M and L commands of data, in order.
Vertices(data) ==
    LET ix == {i \in 1..Len(data) : data[i].cmd # "Z"}
    IN [i \in ix |-> <<data[i].x, data[i].y>>]

\* Some point is named by two commands of data.
TouchesItself(data) ==
    \E i, j \in 1..Len(data) :
        i < j /\ data[i].cmd # "Z" /\ data[j].cmd # "Z"
        /\ data[i].x = data[j].x /\ data[i].y = data[j].y

NumSubPaths(data) == Cardinality({i \in 1..Len(data) : data[i].cmd = "M"})

\* The real nodes the grid holds: every plain node and both slots of every
\* VirtualNode2D.
GridNodes(g) ==
    UNION {UNION {IF g.data[y][x].virtual
                  THEN {g.data[y][x].real_nodes[1], g.data[y][x].real_nodes[2]}
                  ELSE {g.data[y][x].real_nodes[1]} : x \in DOMAIN g.data[y]}
           : y \in DOMAIN g.data}

Linked(g) == {n \in GridNodes(g) : g.nodes[n].next # NoNode}

VirtualPoints(g) ==
    {<<x, y>> \in Points(Cols(g.data), Rows(g.data)) : g.data[y][x].virtual}

RECURSIVE OrbitFrom(_, _, _)
OrbitFrom(nodes, n, seen) ==
    IF n = NoNode \/ n \in seen THEN seen
    ELSE Eager(seen \cup {n}, LAMBDA v : OrbitFrom(nodes, nodes[n].next, v))

\* The objects reached from object n by following next, n included.
Orbit(nodes, n) == OrbitFrom(nodes, n, {})

\* Following next from n comes back to the object n.
OnCycle(nodes, n) ==
    nodes[n].next # NoNode /\ n \in Orbit(nodes, nodes[n].next)

\* The cycles of the graph, each as the set of its objects.
Cycles(g) == {Orbit(g.nodes, n) : n \in {m \in Linked(g) : OnCycle(g.nodes, m)}}

\* The unit segments {a, b} of the corner lattice with a 1-cell of mask on
\* exactly one side (the other side a 0-cell or outside the image).
IsOne(mask, x, y) ==
    x \in 0..(Cols(mask) - 1) /\ y \in 0..(Rows(mask) - 1) /\ mask[y][x] = 1

BoundarySegments(mask) ==
    {{<<x, y>>, <<x + 1, y>>} : <<x, y>> \in
        {c \in Points(Cols(mask), Rows(mask) + 1) :
            IsOne(mask, c[1], c[2] - 1) # IsOne(mask, c[1], c[2])}}
    \cup
    {{<<x, y>>, <<x, y + 1>>} : <<x, y>> \in
        {c \in Points(Cols(mask) + 1, Rows(mask)) :
            IsOne(mask, c[1] - 1, c[2]) # IsOne(mask, c[1], c[2])}}

\* The cells that are not 1-cells of mask, those of a one-cell frame around
\* the image included.
PaddedZeros(mask) ==
    {<<x, y>> : x \in (-1)..Cols(mask), y \in (-1)..Rows(mask)} \ Ones(mask)

\* The cells of the holes of mask: the non-cluster cells that no path of
\* non-cluster cells joins to the outside of the image, a path being made of
\* horizontal and vertical steps and, when diag, of diagonal steps as well.
HoleCells(mask, diag) ==
    PaddedZeros(mask) \ Closure({<<-1, -1>>}, PaddedZeros(mask), diag)

RECURSIVE NumComponents(_, _)
NumComponents(cells, diag) ==
    IF cells = {} THEN 0
    ELSE Eager(cells \ Closure({RowMajorFirst(cells)}, cells, diag),
               LAMBDA rest : 1 + NumComponents(rest, diag))

\* The number of maximal connected regions of hole cells.
NumHoles(mask, diag) == NumComponents(HoleCells(mask, diag), diag)

\* The holes of one pixel: a 0-cell whose four neighbours are 1-cells.
OnePixelHoles(mask) ==
    {h \in Points(Cols(mask), Rows(mask)) :
        /\ mask[h[2]][h[1]] = 0
        /\ IsOne(mask, h[1], h[2] - 1) /\ IsOne(mask, h[1] + 1, h[2])
        /\ IsOne(mask, h[1], h[2] + 1) /\ IsOne(mask, h[1] - 1, h[2])}

DiagonalsAreOnes(mask, h) ==
    /\ IsOne(mask, h[1] - 1, h[2] - 1) /\ IsOne(mask, h[1] + 1, h[2] - 1)
    /\ IsOne(mask, h[1] - 1, h[2] + 1) /\ IsOne(mask, h[1] + 1, h[2] + 1)

Corners(h) ==
    {<<h[1], h[2]>>, <<h[1] + 1, h[2]>>, <<h[1] + 1, h[2] + 1>>, <<h[1], h[2] + 1>>}

RECURSIVE ShoelaceFrom(_, _, _, _, _)
ShoelaceFrom(nodes, origin, n, acc, fuel) ==
    LET a == nodes[n]
        b == nodes[a.next]
    IN Eager(acc + a.x * b.y - b.x * a.y,
             LAMBDA v : IF a.next = origin \/ fuel = 0 THEN v
                        ELSE ShoelaceFrom(nodes, origin, a.next, v, fuel - 1))

\* Twice the signed area of the cycle of origin by the shoelace formula; it
\* is +2 for (0,0) -> (1,0) -> (1,1) -> (0,1), the clockwise unit square of
\* image coordinates.
Shoelace(nodes, origin) == ShoelaceFrom(nodes, origin, origin, 0, Len(nodes))

LoopPoints(nodes, origin) == {Coords(nodes[m]) : m \in Orbit(nodes, origin)}

\* Some extracted loop after the first runs around pixel h alone, against
\* the clock.
HoleLoopAround(h) ==
    \E i \in 2..Len(node_loops) :
        /\ LoopPoints(node_grid.nodes, node_loops[i]) = Corners(h)
        /\ Shoelace(node_grid.nodes, node_loops[i]) < 0

RECURSIVE CycleCommands(_, _, _, _, _)
CycleCommands(nodes, origin, n, data, fuel) ==
    LET nx == nodes[n].next
    IN IF nx = origin \/ fuel = 0
       THEN Append(data, [cmd |-> "Z", x |-> 0, y |-> 0])
       ELSE Eager(Append(data, [cmd |-> "L", x |-> nodes[nx].x, y |-> nodes[nx].y]),
                  LAMBDA v : CycleCommands(nodes, origin, nx, v, fuel - 1))

RECURSIVE LoopsCommands(_, _, _, _)
\* M at the origin of each loop, L at every further object of its cycle in
\* next order, then Z; the loops in their order.
LoopsCommands(nodes, loops, i, data) ==
    IF i > Len(loops) THEN data
    ELSE Eager(CycleCommands(nodes, loops[i], loops[i],
                             Append(data, [cmd |-> "M", x |-> nodes[loops[i]].x,
                                           y |-> nodes[loops[i]].y]),
                             Len(nodes)),
               LAMBDA v : LoopsCommands(nodes, loops, i + 1, v))

\* A path given as <<cmd, x, y>> triples.
PathOf(triples) ==
    [i \in 1..Len(triples) |->
        [cmd |-> triples[i][1], x |-> triples[i][2], y |-> triples[i][3]]]

SinglePixelPath ==
    PathOf(<< <<"M", 0, 0>>, <<"L", 1, 0>>, <<"L", 1, 1>>, <<"L", 0, 1>>, <<"Z", 0, 0>> >>)

RingPath ==
    PathOf(<< <<"M", 0, 0>>, <<"L", 3, 0>>, <<"L", 3, 3>>, <<"L", 0, 3>>, <<"Z", 0, 0>>,
              <<"M", 1, 1>>, <<"L", 1, 2>>, <<"L", 2, 2>>, <<"L", 2, 1>>, <<"Z", 0, 0>> >>)

Ring == Points(3, 3) \ {<<1, 1>>}

\* The path of cluster Len(paths) has just been added; node_grid and
\* node_loops are still that cluster's.
PathAdded == paths # <<>> /\ pc \in {"trace", "done"}

\* Linked nodes of the grid that are on no cycle any more: optimize has
\* spliced them out.
SplicedOut(g) == {n \in Linked(g) : ~OnCycle(g.nodes, n)}

\* The segment of the directed edge (n, n.next).
EdgeSegment(nodes, n) == {Coords(nodes[n]), Coords(nodes[nodes[n].next])}

\* The pixels of img of the colour of pixel p.
SameColour(p) == {q \in Points(ImgW, ImgH) : img[q[2]][q[1]] = img[p[2]][p[1]]}

\* The pixels path k of the document fills.
FilledBy(k) ==
    {p \in Points(ImgW, ImgH) : Winding(document.paths[k].d, p[1], p[2]) # 0}

\* img with every pixel of alpha below 255 made fully transparent.
Cleared ==
    [y \in 0..(ImgH - 1) |-> [x \in 0..(ImgW - 1) |->
        IF img[y][x].a = 255 THEN img[y][x] ELSE Color(0, 0, 0, 0)]]

\* The two slots of the split vertex at p.
Slot(g, p, i) == g.data[p[2]][p[1]].real_nodes[i]

\* The loops of node_loops that the object n lies on.
LoopsThrough(n) ==
    {i \in 1..Len(node_loops) : n \in Orbit(node_grid.nodes, node_loops[i])}

\* The connect call of the statement at trace_pos, when it makes one: the
\* real nodes a and b that the grid entries at its two points stand for.
CallsConnect ==
    /\ pc = "tracing"
    /\ LET k == trace_pos \div 4
           mask == clusters[ci].bitmask
       IN SideNeighbor(np_neumann_neighbors(mask, k % Cols(mask), k \div Cols(mask)),
                       trace_pos % 4) \in {0, Absent}

CallFrom ==
    LET k == trace_pos \div 4
        cols == Cols(clusters[ci].bitmask)
    IN SideFrom(k % cols, k \div cols, trace_pos % 4)

CallTo ==
    LET k == trace_pos \div 4
        cols == Cols(clusters[ci].bitmask)
    IN SideTo(k % cols, k \div cols, trace_pos % 4)

\* The call has split the endpoint at p, whose real node was old: the grid
\* holds a split vertex there, slot 0 has the links of old, old's neighbours
\* are linked to slot 0, and slot 1 has the new edge, as its next link when
\* the endpoint is the edge's start and as its prev link otherwise.
SplitKeepsChain(p, old, is_start) ==
    LET g == node_grid
        h == node_grid'
        s0 == Slot(h, p, 1)
        s1 == Slot(h, p, 2)
    IN /\ h.data[p[2]][p[1]].virtual
       /\ s0 > Len(g.nodes) /\ s1 > Len(g.nodes) /\ s0 # s1
       /\ h.nodes[s0].next = g.nodes[old].next
       /\ h.nodes[s0].prev = g.nodes[old].prev
       /\ h.nodes[g.nodes[old].prev].next = s0
       /\ h.nodes[g.nodes[old].next].prev = s0
       /\ IF is_start
          THEN /\ h.nodes[s1].prev = NoNode
               /\ h.nodes[s1].next = current(EntryAt(h, CallTo))
          ELSE /\ h.nodes[s1].next = NoNode
               /\ h.nodes[s1].prev = current(EntryAt(h, CallFrom))

\* What one statement of trace_bitmask does to the links.
ConnectKeepsChains ==
    CallsConnect =>
        LET g == node_grid
            h == node_grid'
            a == current(EntryAt(g, CallFrom))
            b == current(EntryAt(g, CallTo))
            split_a == HasBothLinks(g, a)
            split_b == HasBothLinks(g, b)
            \* the objects some link of which the call may set
            relinked == (IF split_a THEN {g.nodes[a].prev, g.nodes[a].next}
                         ELSE {a})
                        \cup (IF split_b THEN {g.nodes[b].prev, g.nodes[b].next}
                              ELSE {b})
        IN /\ split_a => SplitKeepsChain(CallFrom, a, TRUE)
           /\ split_b => SplitKeepsChain(CallTo, b, FALSE)
           /\ \A n \in 1..Len(g.nodes) : n \notin relinked => h.nodes[n] = g.nodes[n]
           /\ ~split_a => g.nodes[a].next = NoNode
           /\ ~split_b => g.nodes[b].prev = NoNode
           /\ \A n \in 1..Len(g.nodes) :
                  /\ g.nodes[n].next # NoNode =>
                         \/ h.nodes[n].next = g.nodes[n].next
                         \/ split_b /\ g.nodes[n].next = b
                              /\ h.nodes[n].next = Slot(h, CallTo, 1)
                         \/ split_a /\ g.nodes[n].next = a
                              /\ h.nodes[n].next = Slot(h, CallFrom, 1)
                  /\ g.nodes[n].prev # NoNode =>
                         \/ h.nodes[n].prev = g.nodes[n].prev
                         \/ split_a /\ g.nodes[n].prev = a
                              /\ h.nodes[n].prev = Slot(h, CallFrom, 1)
                         \/ split_b /\ g.nodes[n].prev = b
                              /\ h.nodes[n].prev = Slot(h, CallTo, 1)

\* The commands of data with every coordinate multiplied by s.
Scaled(data, s) ==
    [i \in 1..Len(data) |->
        [cmd |-> data[i].cmd, x |-> s * data[i].x, y |-> s * data[i].y]]

(***************************************************************************)
(* Properties                                                              *)
(***************************************************************************)
\* C1: the path emitted for a cluster at scale 1 fills, under the non-zero
\* rule, exactly the cluster: a pixel has non-zero winding number iff its
\* bitmask cell is 1; and the pipeline raises nothing.  A path is the last
\* of paths in the state AddPath leaves, and paths[k] is cluster k's.
C1_PathFillsCluster ==
    /\ pc # "failed"
    /\ paths # <<>> =>
           FillsExactly(paths[Len(paths)], clusters[Len(paths)].bitmask)

\* The path of a cluster whose hole meets other background at a corner: the
\* path passes a point twice.
C1_Witness ==
    /\ paths # <<>>
    /\ TouchesItself(paths[Len(paths)])
    /\ HoleCells(clusters[Len(paths)].bitmask, FALSE) # {}
    /\ FillsExactly(paths[Len(paths)], clusters[Len(paths)].bitmask)

\* C2: after split_into_clusters every 1-cell of the region is in exactly
\* one cluster, a cluster holds no 0-cell, and the cluster of a 1-cell is
\* exactly the set of 1-cells joined to it by horizontal and vertical steps
\* through 1-cells (so cells touching only at a corner are apart).
C2_ClustersAre4Components ==
    pc # "split" =>
        LET ones == Ones(region.bitmask)
        IN /\ \A i \in 1..Len(clusters) :
                  /\ clusters[i].data \subseteq ones
                  /\ Ones(clusters[i].bitmask) = clusters[i].data
           /\ \A p \in ones :
                  /\ Cardinality({i \in 1..Len(clusters) : p \in clusters[i].data}) = 1
                  /\ \A i \in 1..Len(clusters) :
                         p \in clusters[i].data =>
                             clusters[i].data = Component4(ones, p)

\* Two 1-cells that touch only at a corner lie in different clusters, and
\* some cluster has a cell reached only by a step to the left.
C2_Witness ==
    /\ pc # "split"
    /\ \E i, j \in 1..Len(clusters) :
           /\ i # j
           /\ \E p \in clusters[i].data, q \in clusters[j].data :
                  Adjacent8(p, q) /\ ~Adjacent4(p, q)
    /\ \E i \in 1..Len(clusters) :
           \E p \in clusters[i].data :
               /\ <<p[1] + 1, p[2]>> \in clusters[i].data
               /\ <<p[1], p[2] - 1>> \notin clusters[i].data
               /\ <<p[1], p[2] + 1>> \notin clusters[i].data
               /\ <<p[1] - 1, p[2]>> \notin clusters[i].data

\* C3: get_distinct_color_regions puts every pixel in exactly one region,
\* two pixels in the same region iff their four channels are equal; the
\* regions' bitmasks are pairwise disjoint and their union is the full mask.
C3_RegionsPartitionByColour ==
    pc \in {"regions", "filtered"} =>
        LET pts == Points(ImgW, ImgH)
            holders(p) == {i \in 1..Len(regions) : p \in regions[i].data}
            ones(p) == {i \in 1..Len(regions) : regions[i].bitmask[p[2]][p[1]] = 1}
        IN /\ \A p \in pts : Cardinality(holders(p)) = 1 /\ ones(p) = holders(p)
           /\ \A p, q \in pts :
                  (holders(p) = holders(q)) <=> (img[p[2]][p[1]] = img[q[2]][q[1]])
           /\ \A i \in 1..Len(regions) :
                  /\ regions[i].data \subseteq pts
                  /\ regions[i].width = ImgW /\ regions[i].height = ImgH
                  /\ \A p \in regions[i].data : regions[i].color = img[p[2]][p[1]]

\* The regions of an image with two colours whose channels 01 10 and 11 00
\* differ only in where the zeros are, and a third colour.
C3_Witness ==
    /\ pc = "regions"
    /\ Len(regions) = 3
    /\ \E i, j \in 1..Len(regions) :
           /\ regions[i].color = Color(1, 16, 0, 255)
           /\ regions[j].color = Color(17, 0, 0, 255)
           /\ regions[i].data \cap regions[j].data = {}
           /\ Cardinality(regions[i].data) = 2

\* C4: after trace_bitmask every node of the grid (plain or slot) has both
\* links or none; a node with a next link lies on a closed cycle of next
\* links, and next and prev are inverse of each other at it.
C4_LinkedNodesLieOnCycles ==
    pc = "extract" =>
        \A n \in GridNodes(node_grid) :
            LET node == node_grid.nodes[n]
            IN /\ (node.next # NoNode) <=> (node.prev # NoNode)
               /\ node.next # NoNode =>
                      /\ OnCycle(node_grid.nodes, n)
                      /\ node_grid.nodes[node.next].prev = n
                      /\ node_grid.nodes[node.prev].next = n
                      /\ node.next \in GridNodes(node_grid)

\* A traced cluster with a split vertex.
C4_Witness ==
    /\ pc = "extract"
    /\ VirtualPoints(node_grid) # {}
    /\ \A p \in VirtualPoints(node_grid) :
           \A i \in {1, 2} :
               OnCycle(node_grid.nodes, node_grid.data[p[2]][p[1]].real_nodes[i])

\* C5: after trace_bitmask the directed edges (n, n.next) are exactly the
\* unit segments between a 1-cell of the cluster and a 0-cell or the outside
\* of the image, each segment once.
C5_EdgesAreBoundarySegments ==
    pc = "extract" =>
        LET mask == clusters[ci].bitmask
            linked == Linked(node_grid)
        IN /\ {EdgeSegment(node_grid.nodes, n) : n \in linked} = BoundarySegments(mask)
           /\ Cardinality(linked) = Cardinality(BoundarySegments(mask))

\* A traced cluster with an edge on the border of the image, an edge inside
\* it and a split vertex.
C5_Witness ==
    /\ pc = "extract"
    /\ VirtualPoints(node_grid) # {}
    /\ \E n, m \in Linked(node_grid) :
           /\ node_grid.nodes[n].y = 0 /\ node_grid.nodes[node_grid.nodes[n].next].y = 0
           /\ node_grid.nodes[m].y = 1 /\ node_grid.nodes[node_grid.nodes[m].next].y = 1
    /\ Cardinality(Linked(node_grid)) = Cardinality(BoundarySegments(clusters[ci].bitmask))

\* C6: extract_node_loops raises nothing, and every cycle of the traced graph
\* is the cycle of exactly one of the origins returned.
C6_EachCycleExtractedOnce ==
    /\ error # "IsNotEnclosed"
    /\ pc = "optimize" =>
           /\ {Orbit(node_grid.nodes, node_loops[i]) : i \in 1..Len(node_loops)}
                  = Cycles(node_grid)
           /\ Cardinality(Cycles(node_grid)) = Len(node_loops)

\* Loops extracted from a graph with a split vertex whose two slots lie on
\* the same cycle.
C6_Witness ==
    /\ pc = "optimize"
    /\ \E p \in VirtualPoints(node_grid) :
           LET e == node_grid.data[p[2]][p[1]]
           IN e.real_nodes[2] \in Orbit(node_grid.nodes, e.real_nodes[1])
    /\ Cardinality(Cycles(node_grid)) = Len(node_loops)

C8_OnePixelHoleHasLoop ==
    pc = "optimize" =>
        LET mask == clusters[ci].bitmask
        IN /\ HoleCells(mask, FALSE) = {} =>
                  /\ Len(node_loops) = 1
                  /\ Shoelace(node_grid.nodes, node_loops[1]) > 0
           /\ \A h \in OnePixelHoles(mask) : HoleLoopAround(h)

\* C8: the single loop of a cluster without holes is clockwise, and every
\* one-pixel hole whose four diagonal neighbours are cluster pixels has a
\* loop of its own, after the first, of the opposite orientation.
C8_EnclosedOnePixelHoleHasLoop ==
    pc = "optimize" =>
        LET mask == clusters[ci].bitmask
        IN /\ HoleCells(mask, FALSE) = {} =>
                  /\ Len(node_loops) = 1
                  /\ Shoelace(node_grid.nodes, node_loops[1]) > 0
           /\ \A h \in OnePixelHoles(mask) :
                  DiagonalsAreOnes(mask, h) => HoleLoopAround(h)

\* Loops extracted from a ring of eight pixels around a one-pixel hole.
C8_Witness ==
    /\ pc = "optimize"
    /\ \E h \in OnePixelHoles(clusters[ci].bitmask) :
           DiagonalsAreOnes(clusters[ci].bitmask, h) /\ HoleLoopAround(h)
    /\ Shoelace(node_grid.nodes, node_loops[1]) > 0

\* C9: each sub-path of a cluster's path starts at the row-major-first
\* corner of its loop and lists the loop's further vertices in next order;
\* the sub-paths are in the row-major order of their start corners, the first
\* starting at the top-left corner of the cluster's row-major-first pixel.
\* The pixel (0,0) alone gives M0,0L1,0L1,1L0,1Z and the 3x3 ring gives
\* M0,0L3,0L3,3L0,3Z M1,1L1,2L2,2L2,1Z.
C9_SubPathsStartRowMajorFirst ==
    PathAdded =>
        LET nodes == node_grid.nodes
            data == paths[Len(paths)]
            cluster == clusters[Len(paths)]
        IN /\ data = LoopsCommands(nodes, node_loops, 1, <<>>)
           /\ \A i \in 1..Len(node_loops) :
                  Coords(nodes[node_loops[i]]) =
                      RowMajorFirst(LoopPoints(nodes, node_loops[i]))
           /\ \A i, j \in 1..Len(node_loops) :
                  i < j => RowMajorBefore(Coords(nodes[node_loops[i]]),
                                          Coords(nodes[node_loops[j]]))
           /\ Coords(nodes[node_loops[1]]) = RowMajorFirst(cluster.data)
           /\ cluster.data = {<<0, 0>>} => data = SinglePixelPath
           /\ cluster.data = Ring => data = RingPath

\* The path of the 3x3 ring: two sub-paths, the outer one first.
C9_Witness ==
    /\ PathAdded
    /\ clusters[Len(paths)].data = Ring
    /\ paths[Len(paths)] = RingPath
    /\ Len(node_loops) = 2

\* C10: a second optimize of the loops of a cluster raises nothing and
\* relinks nothing: every node has the links the first optimize left, so the
\* loops' cyclic vertex sequences are those of the first call.
C10_OptimizeIsIdempotent ==
    opt_calls >= 2 =>
        /\ pc # "failed"
        /\ node_grid.nodes = first_pass
        /\ LoopsCommands(node_grid.nodes, node_loops, 1, <<>>)
               = LoopsCommands(first_pass, node_loops, 1, <<>>)

\* Two calls on the loops of a cluster with a split vertex, the first of
\* which has spliced nodes out.
C10_Witness ==
    /\ opt_calls = 2
    /\ pc = "add_path"
    /\ VirtualPoints(node_grid) # {}
    /\ SplicedOut(node_grid) # {}
    /\ node_grid.nodes = first_pass

\* C11: the paths of the document are in the order of their colours' first
\* pixels in the row-major scan and, within one colour, in the order of
\* their clusters' first pixels; the document is the function render of the
\* pixel buffer and the scale.
C11_PathsInFirstPixelOrder ==
    pc = "built" =>
        /\ \A k, l \in 1..Len(document.paths) :
               k < l =>
                   LET pk == RowMajorFirst(FilledBy(k))
                       pl == RowMajorFirst(FilledBy(l))
                   IN /\ FilledBy(k) # {} /\ FilledBy(l) # {}
                      /\ document.paths[k].fill = to_hex(img[pk[2]][pk[1]])
                      /\ document.paths[l].fill = to_hex(img[pl[2]][pl[1]])
                      /\ IF img[pk[2]][pk[1]] = img[pl[2]][pl[1]]
                         THEN RowMajorBefore(pk, pl)
                         ELSE RowMajorBefore(RowMajorFirst(SameColour(pk)),
                                             RowMajorFirst(SameColour(pl)))
        /\ document = render(img, svg_scale)

\* The document of an image with two clusters of one colour around a pixel
\* of another colour that comes second in the scan.
C11_Witness ==
    /\ pc = "built"
    /\ Len(document.paths) = 3
    /\ document.paths[1].fill = document.paths[2].fill
    /\ document.paths[3].fill # document.paths[1].fill
    /\ RowMajorBefore(RowMajorFirst(FilledBy(3)), RowMajorFirst(FilledBy(2)))

\* C12: the document has exactly one path for every 4-connected cluster of
\* every colour of alpha 255, filling that cluster in that colour, and no
\* other path; no path covers a pixel of alpha below 255, and the paths are
\* those of the image with these pixels fully transparent.
C12_OnePathPerOpaqueCluster ==
    pc = "built" =>
        LET pts == Points(ImgW, ImgH)
            opaque == {p \in pts : img[p[2]][p[1]].a = 255}
            covering(p) == {k \in 1..Len(document.paths) : p \in FilledBy(k)}
        IN /\ \A p \in opaque :
                  /\ Cardinality(covering(p)) = 1
                  /\ \A k \in covering(p) :
                         /\ FilledBy(k) = Component4(SameColour(p), p)
                         /\ document.paths[k].fill = to_hex(img[p[2]][p[1]])
           /\ \A p \in pts \ opaque : covering(p) = {}
           /\ \A k \in 1..Len(document.paths) : FilledBy(k) # {}
           /\ Len(document.paths)
                  = Cardinality({Component4(SameColour(p), p) : p \in opaque})
           /\ document.paths = render(Cleared, svg_scale).paths

\* The document of an image with a pixel of alpha 254, a pixel of alpha 0
\* and two opaque pixels.
C12_Witness ==
    /\ pc = "built"
    /\ \E p, q \in Points(ImgW, ImgH) :
           img[p[2]][p[1]].a = 254 /\ img[q[2]][q[1]].a = 0
    /\ Len(document.paths) = 2
    /\ \A k \in 1..2 : Cardinality(FilledBy(k)) = 1

\* C13: the path data emitted at scale s >= 1 has the commands of the path
\* data at scale 1, in the same order, every coordinate s times the one at
\* scale 1; the document declares the width W * s and the height H * s.
C13_CoordinatesScale ==
    /\ PathAdded =>
           /\ svg_scale >= 1
           /\ paths[Len(paths)] =
                  Scaled(join_path_data(node_grid.nodes, node_loops, 1, 1, <<>>).data,
                         svg_scale)
           /\ paths[Len(paths)] =
                  Scaled(LoopsCommands(node_grid.nodes, node_loops, 1, <<>>), svg_scale)
    /\ pc = "built" =>
           document.width = W * svg_scale /\ document.height = H * svg_scale

\* A document at scale 3 with the path of the 3x3 ring.
C13_Witness ==
    /\ pc = "built"
    /\ svg_scale = 3
    /\ document.width = 3 * W
    /\ \E k \in 1..Len(paths) :
           clusters[k].data = Ring /\ paths[k] = Scaled(RingPath, 3)

\* C14: a failure of one file leaves the other files' processing alone:
\* when the driver has ended, every file that can be decoded and written
\* has been saved, and every file that cannot be decoded has been skipped
\* with a report.
C14_FailureSkipsOnlyThatFile ==
    driver.pc \in {"finished", "error_exit"} =>
        \A i \in 1..Len(driver.files) :
            /\ driver.files[i].open = "ok" /\ driver.files[i].write = "ok"
                   => i \in driver.saved
            /\ driver.files[i].open = "error" => i \in driver.skipped

\* C15 as stated: the two slots of a split vertex differ for the equality
\* test of the graph walk and for the visited set, and lie on two different
\* loops of the result of extract_node_loops.
C15_SlotsOnDifferentLoops ==
    pc = "optimize" =>
        \A p \in VirtualPoints(node_grid) :
            LET s0 == Slot(node_grid, p, 1)
                s1 == Slot(node_grid, p, 2)
            IN /\ ~PointEq(node_grid.nodes[s0], node_grid.nodes[s1])
               /\ Coords(node_grid.nodes[s0]) # Coords(node_grid.nodes[s1])
               /\ LoopsThrough(s0) \cap LoopsThrough(s1) = {}

\* C15: the two slots of a split vertex are two objects that are equal for
\* the equality test of the graph walk and for the visited set (both compare
\* coordinates); each slot lies on exactly one loop of the result, the same
\* loop for both; and no loop has its origin at a split vertex, so no walk
\* from an origin stops at a slot.
C15_SlotsOnTheSameLoop ==
    pc = "optimize" =>
        \A p \in VirtualPoints(node_grid) :
            LET s0 == Slot(node_grid, p, 1)
                s1 == Slot(node_grid, p, 2)
            IN /\ s0 # s1
               /\ PointEq(node_grid.nodes[s0], node_grid.nodes[s1])
               /\ Coords(node_grid.nodes[s0]) = Coords(node_grid.nodes[s1])
               /\ Cardinality(LoopsThrough(s0)) = 1
               /\ LoopsThrough(s1) = LoopsThrough(s0)
               /\ \A i \in 1..Len(node_loops) :
                      Coords(node_grid.nodes[node_loops[i]]) # p

\* The loop extracted from a cluster with a hole that touches the outside at
\* a corner: the one loop runs through both slots of the split vertex there.
C15_Witness ==
    /\ pc = "optimize"
    /\ HoleCells(clusters[ci].bitmask, FALSE) # {}
    /\ Len(node_loops) = 1
    /\ \E p \in VirtualPoints(node_grid) :
           /\ Slot(node_grid, p, 1) # Slot(node_grid, p, 2)
           /\ LoopsThrough(Slot(node_grid, p, 1)) = {1}
           /\ LoopsThrough(Slot(node_grid, p, 2)) = {1}

\* C16: a connect call that finds an endpoint with both links set leaves the
\* chain through that corner intact: slot 0 of the new split vertex has the
\* old node's predecessor and successor, which are linked to slot 0; the new
\* edge is on slot 1 only; no other node's link changes; and no call of
\* trace_bitmask overwrites a link that was set before it.
C16_ConnectKeepsChains == [][TraceStep => ConnectKeepsChains]_vars

\* Right after a call that has split its start point: slot 0 has both links
\* and slot 1 the new edge only.
C16_Witness ==
    /\ pc = "tracing"
    /\ \E p \in VirtualPoints(node_grid) :
           /\ HasBothLinks(node_grid, Slot(node_grid, p, 1))
           /\ node_grid.nodes[Slot(node_grid, p, 2)].next # NoNode
           /\ node_grid.nodes[Slot(node_grid, p, 2)].prev = NoNode

RECURSIVE CycleSeq(_, _, _, _)
\* The objects met from n by following next until the object origin comes
\* up again, in order.
CycleSeq(nodes, origin, n, acc) ==
    IF nodes[n].next \in {origin, NoNode} \/ Len(acc) >= Len(nodes)
    THEN Append(acc, n)
    ELSE Eager(Append(acc, n),
               LAMBDA a : CycleSeq(nodes, origin, nodes[n].next, a))

\* The heap as trace_bitmask left it for the cluster at hand; optimize
\* creates no object, so the ids are those of node_grid.
Traced == trace_bitmask(clusters[ci].bitmask).nodes

\* The unit edge into n and the unit edge out of n differ in direction.
IsTurn(nodes, n) ==
    LET p == nodes[nodes[n].prev]
        c == nodes[n]
        x == nodes[nodes[n].next]
    IN <<c.x - p.x, c.y - p.y>> # <<x.x - c.x, x.y - c.y>>

\* The turn vertices of the traced loop of origin, in cyclic order.
TurnsOf(origin) ==
    LET Turns(n) == IsTurn(Traced, n)
    IN SelectSeq(CycleSeq(Traced, origin, origin, <<>>), Turns)

\* The 3x3 square of ones at the left of the 4x3 mask.
Square3 == {<<x, y>> : x \in 0..2, y \in 0..2}

\* C17: for every loop extracted from a 4-connected cluster, one call of
\* optimize leaves exactly the turn vertices of the traced loop, in their
\* cyclic order from the origin (a split corner's two slots are two turn
\* vertices), with prev the inverse of next; the 3x3 filled square becomes
\* (0,0), (3,0), (3,3), (0,3).
C17_OptimizeLeavesTurns ==
    pc = "add_path" =>
        \A i \in 1..Len(node_loops) :
            LET o == node_loops[i]
                after == CycleSeq(node_grid.nodes, o, o, <<>>)
                succ(k) == after[(k % Len(after)) + 1]
            IN /\ after = TurnsOf(o)
               /\ node_grid.nodes[after[Len(after)]].next = o
               /\ \A k \in 1..Len(after) :
                      /\ node_grid.nodes[after[k]].next = succ(k)
                      /\ node_grid.nodes[succ(k)].prev = after[k]
               /\ \A p \in VirtualPoints(node_grid) : \A j \in 1..2 :
                      Slot(node_grid, p, j) \in Orbit(Traced, o) =>
                          \E k \in 1..Len(after) : after[k] = Slot(node_grid, p, j)
               /\ Ones(clusters[ci].bitmask) = Square3 =>
                      [k \in 1..Len(after) |-> Coords(node_grid.nodes[after[k]])]
                          = <<(<<0, 0>>), (<<3, 0>>), (<<3, 3>>), (<<0, 3>>)>>

\* The 3x3 square after optimize: 4 of its 12 traced vertices are left.
C17_Witness ==
    /\ pc = "add_path"
    /\ Ones(clusters[ci].bitmask) = Square3
    /\ Len(node_loops) = 1
    /\ Len(CycleSeq(Traced, node_loops[1], node_loops[1], <<>>)) = 12
    /\ Len(CycleSeq(node_grid.nodes, node_loops[1], node_loops[1], <<>>)) = 4

\* The first cells, in row-major order, of the components of mask.
FirstCells(mask) ==
    {RowMajorFirst(Component4(Ones(mask), c)) : c \in Ones(mask)}

\* C18: find_connected_neumann_regions returns, and the k-th component in
\* row-major order of first cells has the label k, so that labels are
\* positive and differ between components, for any number of components,
\* more than 127 included.
C18_LabelsAreComponentNumbers ==
    /\ labeler.pc # "OverflowError"
    /\ labeler.pc = "labelled" =>
           LET mask == labeler.bitmask
               firsts == FirstCells(mask)
               number(p) ==
                   LET f == RowMajorFirst(Component4(Ones(mask), p))
                   IN Cardinality({q \in firsts : q = f \/ RowMajorBefore(q, f)})
           IN \A p \in Ones(mask) :
                  /\ labeler.st.regions[p[2]][p[1]] > 0
                  /\ labeler.st.regions[p[2]][p[1]] = number(p)

\* C19: after any calls of add_point and remove_point, with any integer
\* coordinates, bitmask[y][x] = 1 exactly for the points (x, y) of the set
\* with 0 <= x < width and 0 <= y < height, and the set holds no point
\* outside these bounds.
C19_BitmaskMatchesPoints ==
    /\ \A p \in Points(point_set.width, point_set.height) :
           point_set.bitmask[p[2]][p[1]] = 1 <=> p \in point_set.data
    /\ point_set.data \subseteq Points(point_set.width, point_set.height)

RECURSIVE OptimizeIterations(_, _, _, _)
\* The number of iterations of the `while True` of optimize that starts at
\* node with the heap nodes, count iterations having been made; more than
\* twice the number of objects stands for a loop that does not end.
OptimizeIterations(nodes, origin, node, count) ==
    Eager(splice(nodes, node),
          LAMBDA spliced :
              IF \/ PointEq(spliced[spliced[node].next], spliced[origin])
                 \/ count >= 2 * Len(nodes)
              THEN count + 1
              ELSE OptimizeIterations(spliced, origin, spliced[node].next, count + 1))

\* C20: the origin of every loop extract_node_loops returns for a
\* 4-connected cluster is a turn vertex and no other node of its loop has
\* its coordinates; optimize leaves the origin on the loop and its
\* while-loop ends after as many iterations as the traced loop has nodes;
\* loop_to_path_data ends and emits M for the origin, one L for every
\* other vertex left on the loop, in order, and Z.
C20_WalksEndAfterOneTrip ==
    /\ pc # "failed"
    /\ error = "none"
    /\ pc = "add_path" =>
           \A i \in 1..Len(node_loops) :
               LET o == node_loops[i]
                   before == CycleSeq(Traced, o, o, <<>>)
                   after == CycleSeq(node_grid.nodes, o, o, <<>>)
                   r == loop_to_path_data(node_grid.nodes, o, svg_scale)
               IN /\ IsTurn(Traced, o)
                  /\ Traced[before[Len(before)]].next = o
                  /\ \A k \in 2..Len(before) :
                         Coords(Traced[before[k]]) # Coords(Traced[o])
                  /\ OnCycle(node_grid.nodes, o)
                  /\ node_grid.nodes[node_grid.nodes[o].prev].next = o
                  /\ node_grid.nodes[node_grid.nodes[o].next].prev = o
                  /\ OptimizeIterations(Traced, o, o, 0) = Len(before)
                  /\ r.status = "ok"
                  /\ Len(r.data) = Len(after) + 1
                  /\ r.data[1] = svg_m(node_grid.nodes[o], svg_scale)
                  /\ \A k \in 2..Len(after) :
                         r.data[k] = svg_l(node_grid.nodes[after[k]], svg_scale)
                  /\ r.data[Len(after) + 1] = svg_z
                  /\ Cardinality({after[k] : k \in 1..Len(after)}) = Len(after)

\* A loop through both slots of a split corner, so that two of its nodes
\* have the same coordinates, after optimize has taken nodes out of it.
C20_Witness ==
    /\ pc = "add_path"
    /\ SplicedOut(node_grid) # {}
    /\ \E p \in VirtualPoints(node_grid) :
           /\ Slot(node_grid, p, 1) \in Orbit(node_grid.nodes, node_loops[1])
           /\ Slot(node_grid, p, 2) \in Orbit(node_grid.nodes, node_loops[1])

====
